---- MODULE Spec2Model ----
(***************************************************************************)
(* multi_push: a notification relay.  The model covers the platform        *)
(* registry (platforms/common), the WxWork group-bot integration           *)
(* (platforms/wxwork_group_bot) and the /push dispatch handler (server).   *)
(*                                                                         *)
(* Text is a string: format!("a{}b", x) is "a" \o x \o "b", the Display of *)
(* an integer is ToString, and Contains is the substring test.             *)
(***************************************************************************)
EXTENDS Integers, Sequences, FiniteSets, TLC

VARIABLES
    registry,     \* PlatformRegistry.factories: name -> boxed factory
    regLog,       \* history: the factories passed to register, in call order
    lastGet,      \* the last get_factory call: its argument and what it returned
    lastList,     \* what the last list_platforms call returned
    mainPc,       \* position of main()
    now,          \* Utc::now()
    task          \* one record per caller: a /push handler or a direct library call

vars == <<registry, regLog, lastGet, lastList, mainPc, now, task>>

(***************************** bounds **************************************)
MaxRegs == 3      \* register calls in the registry specification
NumTasks == 2     \* concurrent /push requests
MaxClock == 1     \* ticks of the wall clock

Tasks == 1..NumTasks

(***************************** Option<T> ***********************************)
None == [some |-> FALSE]
Some(v) == [some |-> TRUE, v |-> v]

(************************ platforms/common: registry ***********************)
PLATFORM_NAME == "wxwork"

\* The implementors of PlatformFactory the registry is exercised with: the
\* repository's WxWorkPlatformFactory and one further implementor of the trait.
FactoryTypes == {"WxWorkPlatformFactory", "OtherFactory"}

\* PlatformFactory::name
name(factory) ==
    IF factory.type = "WxWorkPlatformFactory" THEN PLATFORM_NAME ELSE "other"

\* The names a caller may ask the registry for.
Names == {PLATFORM_NAME, "other", "unknown"}

\* Box::new(factory): the n-th boxed factory handed to the registry.
BoxFactory(type, n) == [type |-> type, box |-> n]

\* PlatformRegistry::new
new_registry == [n \in {} |-> None]

\* HashMap::insert as the mutant sees it: an existing key keeps its value.
insert_keep_first(map, k, v) ==
    [x \in DOMAIN map \cup {k} |-> IF x \in DOMAIN map THEN map[x] ELSE v]

\* HashMap::insert: the value of an existing key is replaced.
insert(map, k, v) ==
    [x \in DOMAIN map \cup {k} |-> IF x = k THEN v ELSE map[x]]

\* PlatformRegistry::register
register(reg, factory) == insert(reg, name(factory), factory)

\* PlatformRegistry::get_factory
get_factory(reg, n) == IF n \in DOMAIN reg THEN Some(reg[n]) ELSE None

\* The orders in which a HashMap may iterate over its keys.
KeyOrders(map) ==
    {s \in [1..Cardinality(DOMAIN map) -> DOMAIN map] :
        \A i, j \in DOMAIN s : i # j => s[i] # s[j]}

\* PlatformRegistry::list_platforms: keys().cloned().collect(), in any order.
list_platforms(reg) == KeyOrders(reg)

(***************************** Result<T, E> ********************************)
Ok(v) == [ok |-> TRUE, v |-> v]
Err(e) == [ok |-> FALSE, e |-> e]

\* Whether text s occurs inside text t.
Contains(t, s) ==
    \E k \in 1..(Len(t) - Len(s) + 1) : SubSeq(t, k, k + Len(s) - 1) = s

(************************ platforms/common: errors and results *************)
PushError(kind, msg) == [kind |-> kind, msg |-> msg]

\* The #[error("...")] prefixes of PushError.
ErrorPrefix(kind) ==
    CASE kind = "NetworkError" -> "Network error: "
      [] kind = "AuthError" -> "Authentication error: "
      [] kind = "ConfigError" -> "Configuration error: "
      [] kind = "MessageError" -> "Message error: "
      [] kind = "PlatformError" -> "Platform error: "

\* Display for PushError (thiserror): prefix followed by the carried text.
to_string(e) == ErrorPrefix(e.kind) \o e.msg

\* PushResult::default as a mutant has it: a generated message id.
default_PushResult_with_id(t) ==
    [message_id |-> Some("msg-" \o ToString(t)), success |-> FALSE,
     response |-> None, timestamp |-> t]

\* PushResult::default() at clock value t.
default_PushResult(t) ==
    [message_id |-> None, success |-> FALSE, response |-> None, timestamp |-> t]

\* MessageType values a caller may send.
Text(content) == [type |-> "Text", content |-> content]
Markdown(content) == [type |-> "Markdown", content |-> content]
Rich(title, content, url) ==
    [type |-> "Rich", title |-> title, content |-> content, url |-> url]
Image(url, caption) == [type |-> "Image", url |-> url, caption |-> caption]
Link(title, description, url, image_url) ==
    [type |-> "Link", title |-> title, description |-> description,
     url |-> url, image_url |-> image_url]

Messages ==
    {Text("hi"), Markdown("# hi"), Rich("t", "c", None),
     Image("http://img", None), Link("t", "d", "http://l", None)}

(************************ serde_json::Value ********************************)
JNull == [t |-> "null"]
JStr(s) == [t |-> "string", s |-> s]
JNum(n) == [t |-> "number", n |-> n]
JObj(fields) == [t |-> "object", fields |-> fields]
NoFields == [k \in {} |-> JNull]

\* Configuration blobs: a good one, one with an extra key, one without token,
\* token of the wrong type (number, null), and a blob that is no object.
GoodConfig == JObj([token |-> JStr("abc")])
NoTokenConfig == JObj(NoFields)
Configs ==
    {GoodConfig,
     JObj([token |-> JStr("abc"), extra |-> JNum(1)]),
     NoTokenConfig,
     JObj([token |-> JNum(7)]),
     JObj([token |-> JNull]),
     JStr("abc")}

\* #[serde(default)] on token, as the mutant has it: a missing token is "".
from_value_default_token(v) ==
    CASE v.t = "object" ->
            IF "token" \notin DOMAIN v.fields
            THEN Ok([token |-> ""])
            ELSE IF v.fields.token.t = "string"
                 THEN Ok([token |-> v.fields.token.s])
                 ELSE Err("invalid type: " \o v.fields.token.t \o ", expected a string")
      [] OTHER -> Err("invalid type: " \o v.t \o ", expected struct WxWorkConfig")

\* serde_json::from_value::<WxWorkConfig>: the blob must be an object whose
\* token is a string; other keys are ignored.
from_value(v) ==
    CASE v.t = "object" ->
            IF "token" \notin DOMAIN v.fields
            THEN Err("missing field 'token'")
            ELSE IF v.fields.token.t = "string"
                 THEN Ok([token |-> v.fields.token.s])
                 ELSE Err("invalid type: " \o v.fields.token.t \o ", expected a string")
      [] OTHER -> Err("invalid type: " \o v.t \o ", expected struct WxWorkConfig")

(************************ platforms/wxwork_group_bot ***********************)
BASE_URL == "https://qyapi.weixin.qq.com/cgi-bin/webhook/send"

\* WxWorkConfig::webhook_url
webhook_url(config) == BASE_URL \o "?key=" \o config.token

\* WxWorkGroupBotPlatform::new
new(config) == [config |-> config, http_client |-> "Client"]

\* WxWorkPlatformFactory::create
WxWorkPlatformFactory_create(config) ==
    LET parsed == from_value(config) IN
    IF parsed.ok
    THEN Ok(new(parsed.v))
    ELSE Err(PushError("ConfigError", parsed.e))

\* PlatformFactory::create through the boxed trait object.
create(factory, config) ==
    CASE factory.type = "WxWorkPlatformFactory" -> WxWorkPlatformFactory_create(config)

\* An async call either is ready with its result, or is parked on the POST it
\* has just issued.
Ready(result) == [state |-> "ready", result |-> result]
Pending(post) == [state |-> "pending", post |-> post]

\* send_request up to its first await: the POST is issued.
send_request(p, payload) ==
    Pending([method |-> "POST", url |-> webhook_url(p.config), json |-> payload])

WxWorkTextPayload(content, mentioned_list) ==
    [msgtype |-> "text",
     text |-> [content |-> content, mentioned_list |-> mentioned_list,
               mentioned_mobile_list |-> <<>>]]

WxWorkMarkdownPayload(content) ==
    [msgtype |-> "markdown", markdown |-> [content |-> content]]

send_text(p, content) == send_request(p, WxWorkTextPayload(content, <<>>))

\* send_text_with_mention as a mutant has it: left unimplemented.
send_text_with_mention_unimplemented(p, content, mention_list) ==
    Ready(Err(PushError("PlatformError", "WxWork Bot mentions are not implemented.")))

send_text_with_mention(p, content, mention_list) ==
    send_request(p, WxWorkTextPayload(content, mention_list))

send_markdown(p, content) == send_request(p, WxWorkMarkdownPayload(content))

send_rich(p, title, content, url) ==
    Ready(Err(PushError("PlatformError",
        "WxWork Bot does not support rich text messages directly.")))

send_image(p, image_url, caption) ==
    Ready(Err(PushError("PlatformError",
        "WxWork Bot image sending requires pre-uploading.")))

send_link(p, title, description, url, image_url) ==
    Ready(Err(PushError("PlatformError",
        "WxWork Bot does not support link messages.")))

\* send as the mutant has it: a rich message is degraded to text and sent.
send_degrading(p, message) ==
    CASE message.type = "Text" -> send_text(p, message.content)
      [] message.type = "Markdown" -> send_markdown(p, message.content)
      [] message.type = "Rich" -> send_text(p, message.content)
      [] OTHER -> Ready(Err(PushError("MessageError",
                      "Unsupported message type for WxWork Bot")))

\* WxWorkGroupBotPlatform::send
send(p, message) ==
    CASE message.type = "Text" -> send_text(p, message.content)
      [] message.type = "Markdown" -> send_markdown(p, message.content)
      [] OTHER -> Ready(Err(PushError("MessageError",
                      "Unsupported message type for WxWork Bot")))

(************************ the webhook's answers *****************************)
\* HTTP statuses the webhook may answer with.
Statuses == {200, 500}

\* is_success as a mutant has it: every status that is no client error.
is_success_lenient(status) == status >= 200 /\ status # 400

\* StatusCode::is_success: 200..=299.
is_success(status) == status >= 200 /\ status < 300

\* Display for StatusCode: the code and its canonical reason.
StatusDisplay(status) ==
    ToString(status) \o " " \o
        (IF status = 200 THEN "OK" ELSE "Internal Server Error")

\* The {errcode, errmsg} envelopes the webhook answers with, and their JSON text.
Envelopes ==
    {[errcode |-> 0, errmsg |-> "ok"], [errcode |-> 93000, errmsg |-> "invalid token"]}

EnvelopeJson(e) ==
    "{\"errcode\":" \o ToString(e.errcode) \o ",\"errmsg\":\"" \o e.errmsg \o "\"}"

\* A body that is JSON but no envelope: errmsg is missing.
BodyNoErrmsg == "{\"errcode\":0}"

Bodies == {EnvelopeJson(e) : e \in Envelopes} \cup {BodyNoErrmsg}

\* serde_json::from_str::<WxWorkResponse>: the inverse of the JSON rendering
\* where the text is an envelope, an error otherwise.
from_str(text) ==
    IF \E e \in Envelopes : EnvelopeJson(e) = text
    THEN Ok(CHOOSE e \in Envelopes : EnvelopeJson(e) = text)
    ELSE Err("missing field 'errmsg' at line 1 column " \o ToString(Len(text)))

\* What .send().await resolves to: a transport error or the response head.
SendOutcomes == {Err("error sending request")} \cup {Ok(s) : s \in Statuses}

\* What .text().await resolves to: a transport error or the body.
TextOutcomes == {Err("error decoding response body")} \cup {Ok(b) : b \in Bodies}

\* send_request resumed from .send().await; the ? returns a transport error.
send_request_sent(outcome) ==
    IF outcome.ok
    THEN [state |-> "head", status |-> outcome.v]
    ELSE Ready(Err(PushError("NetworkError", outcome.e)))

\* send_request resumed from .text().await, at clock value t.
send_request_text(status, outcome, t) ==
    IF ~outcome.ok
    THEN Err(PushError("NetworkError", outcome.e))
    ELSE LET text == outcome.v IN
         IF is_success(status)
         THEN LET wx_response == from_str(text) IN
              IF ~wx_response.ok
              THEN Err(PushError("PlatformError", wx_response.e))
              ELSE IF wx_response.v.errcode = 0
                   THEN Ok([default_PushResult(t) EXCEPT
                               !.success = TRUE, !.response = Some(text)])
                   ELSE Err(PushError("PlatformError",
                            "WxWork API Error: code=" \o ToString(wx_response.v.errcode)
                            \o ", message=" \o wx_response.v.errmsg))
         ELSE Err(PushError("NetworkError",
                  "Request failed with status: " \o StatusDisplay(status)
                  \o ", body: " \o text))

(************************ callers ******************************************)
\* Direct calls of the capability methods, as a library user makes them.
Calls ==
    {[method |-> "send", message |-> m] : m \in Messages} \cup
    {[method |-> "send_text", content |-> "hi"],
     [method |-> "send_text_with_mention", content |-> "Test", mention_list |-> <<"@all">>],
     [method |-> "send_markdown", content |-> "# hi"],
     [method |-> "send_rich", title |-> "t", content |-> "c", url |-> None],
     [method |-> "send_image", image_url |-> "http://img", caption |-> None],
     [method |-> "send_link", title |-> "t", description |-> "d",
      url |-> "http://l", image_url |-> None]}

\* The method call through dyn PushPlatformCapabilities.
invoke(p, call) ==
    CASE call.method = "send" -> send(p, call.message)
      [] call.method = "send_text" -> send_text(p, call.content)
      [] call.method = "send_text_with_mention" ->
            send_text_with_mention(p, call.content, call.mention_list)
      [] call.method = "send_markdown" -> send_markdown(p, call.content)
      [] call.method = "send_rich" -> send_rich(p, call.title, call.content, call.url)
      [] call.method = "send_image" -> send_image(p, call.image_url, call.caption)
      [] call.method = "send_link" ->
            send_link(p, call.title, call.description, call.url, call.image_url)

\* The bodies of POST /push: platform, config, message.
PushRequests ==
    [platform : {PLATFORM_NAME, "unknown"},
     config : {GoodConfig, NoTokenConfig},
     message : Messages]

\* A caller that has not started.
IdleTask ==
    [pc |-> "idle",        \* idle, received, created, await_send, await_text,
                           \* returned (direct call), done (request answered)
     req |-> None,         \* the PushRequest of a /push handler
     call |-> None,        \* the method of a direct call, with its arguments
     looked |-> None,      \* what registry.get_factory returned to the handler
     platform |-> None,    \* the platform instance
     posted |-> <<>>,      \* the outbound requests issued, in order
     net |-> None,         \* what the pending await resolved to, once it has
     status |-> 0,         \* response.status(), 0 before the head arrived
     result |-> None,      \* the Result the call returned
     http |-> None,        \* the HttpResponse of the handler
     trace |-> <<>>]       \* the handler's steps, in order

IsPush(t) == t.req.some

(************************ server: the /push handler ************************)
\* HttpResponse::BadRequest().json(..) and HttpResponse::Ok().json(..)
BadRequest(body) == [status |-> 400, json |-> body]
HttpOk(body) == [status |-> 200, json |-> body]

\* push_respond as a mutant has it: a failed send is answered 500.
push_respond_error_status(t, result, clock) ==
    LET response ==
            IF result.ok
            THEN [result |-> result.v]
            ELSE [result |-> [default_PushResult(clock) EXCEPT
                                 !.success = FALSE,
                                 !.response = Some(to_string(result.e))]]
    IN [t EXCEPT !.result = Some(result),
                 !.http = Some([status |-> IF result.ok THEN 200 ELSE 500,
                                json |-> response]),
                 !.trace = Append(@, "respond"),
                 !.pc = "done"]

\* push_respond as a mutant has it: the error's text is dropped.
push_respond_no_text(t, result, clock) ==
    LET response ==
            IF result.ok
            THEN [result |-> result.v]
            ELSE [result |-> default_PushResult(clock)]
    IN [t EXCEPT !.result = Some(result),
                 !.http = Some(HttpOk(response)),
                 !.trace = Append(@, "respond"),
                 !.pc = "done"]

\* push, from the match on the send result to the response (main.rs 50-63).
push_respond(t, result, clock) ==
    LET response ==
            IF result.ok
            THEN [result |-> result.v]
            ELSE [result |-> [default_PushResult(clock) EXCEPT
                                 !.success = FALSE,
                                 !.response = Some(to_string(result.e))]]
    IN [t EXCEPT !.result = Some(result),
                 !.http = Some(HttpOk(response)),
                 !.trace = Append(@, "respond"),
                 !.pc = "done"]

\* A call has produced its result: the handler answers, a direct call returns.
settle(t, result, clock) ==
    IF IsPush(t)
    THEN push_respond(t, result, clock)
    ELSE [t EXCEPT !.result = Some(result), !.pc = "returned"]

\* A method was called: it returned at once, or issued its POST and is parked.
await(t, future, clock) ==
    IF future.state = "pending"
    THEN [t EXCEPT !.posted = Append(@, future.post), !.pc = "await_send"]
    ELSE settle(t, future.result, clock)

\* push, from its entry to the first await or an early return (main.rs 18-48).
push_start(t, reg, clock) ==
    LET req == t.req.v
        factory == get_factory(reg, req.platform)
        t1 == [t EXCEPT !.looked = Some(factory), !.trace = Append(@, "lookup")]
    IN
    IF ~factory.some
    THEN [t1 EXCEPT
            !.http = Some(BadRequest([result |->
                        [default_PushResult(clock) EXCEPT
                            !.success = FALSE,
                            !.response = Some("Platform '" \o req.platform
                                              \o "' not found")]])),
            !.trace = Append(@, "respond"),
            !.pc = "done"]
    ELSE
    LET platform == create(factory.v, req.config)
        t2 == [t1 EXCEPT !.trace = Append(@, "create")]
    IN
    IF ~platform.ok
    THEN [t2 EXCEPT
            !.http = Some(BadRequest([result |->
                        [default_PushResult(clock) EXCEPT
                            !.success = FALSE,
                            !.response = Some("Failed to create platform: "
                                              \o to_string(platform.e))]])),
            !.trace = Append(@, "respond"),
            !.pc = "done"]
    ELSE await([t2 EXCEPT !.platform = Some(platform.v),
                          !.trace = Append(@, "send")],
               send(platform.v, req.message), clock)

(************************ registry operations ******************************)
Register ==
    /\ Len(regLog) < MaxRegs
    /\ \E type \in FactoryTypes :
        LET f == BoxFactory(type, Len(regLog) + 1) IN
        /\ registry' = register(registry, f)
        /\ regLog' = Append(regLog, f)
    /\ UNCHANGED <<lastGet, lastList, mainPc, now, task>>

GetFactory ==
    /\ \E n \in Names :
        lastGet' = [called |-> TRUE, at |-> Len(regLog), name |-> n,
                    result |-> get_factory(registry, n)]
    /\ UNCHANGED <<registry, regLog, lastList, mainPc, now, task>>

ListPlatforms ==
    /\ \E l \in list_platforms(registry) :
        lastList' = [called |-> TRUE, at |-> Len(regLog), result |-> l]
    /\ UNCHANGED <<registry, regLog, lastGet, mainPc, now, task>>

Init ==
    /\ registry = new_registry
    /\ regLog = <<>>
    /\ lastGet = [called |-> FALSE, at |-> 0, name |-> "unknown", result |-> None]
    /\ lastList = [called |-> FALSE, at |-> 0, result |-> <<>>]
    /\ mainPc = "new"
    /\ now = 0
    /\ task = [i \in Tasks |-> IdleTask]

(************************ server: main *************************************)
\* registry.register(Box::new(WxWorkPlatformFactory))
MainRegister ==
    /\ mainPc = "new"
    /\ LET f == BoxFactory("WxWorkPlatformFactory", Len(regLog) + 1) IN
        /\ registry' = register(registry, f)
        /\ regLog' = Append(regLog, f)
    /\ mainPc' = "registered"
    /\ UNCHANGED <<lastGet, lastList, now, task>>

\* info!("Registered platforms: {:?}", registry.list_platforms())
MainLog ==
    /\ mainPc = "registered"
    /\ \E l \in list_platforms(registry) :
        lastList' = [called |-> TRUE, at |-> Len(regLog), result |-> l]
    /\ mainPc' = "logged"
    /\ UNCHANGED <<registry, regLog, lastGet, now, task>>

\* web::Data::new(registry); HttpServer::new(..).bind(..).run()
MainServe ==
    /\ mainPc = "logged"
    /\ mainPc' = "serving"
    /\ UNCHANGED <<registry, regLog, lastGet, lastList, now, task>>

\* The wall clock advances.
Tick ==
    /\ now < MaxClock
    /\ now' = now + 1
    /\ UNCHANGED <<registry, regLog, lastGet, lastList, mainPc, task>>

(************************ /push requests ***********************************)
\* One request for each way through the handler: unknown platform, create
\* fails, unsupported message, message sent.
SampleRequests ==
    {[platform |-> "unknown", config |-> GoodConfig, message |-> Text("hi")],
     [platform |-> PLATFORM_NAME, config |-> NoTokenConfig, message |-> Text("hi")],
     [platform |-> PLATFORM_NAME, config |-> GoodConfig, message |-> Image("http://img", None)],
     [platform |-> PLATFORM_NAME, config |-> GoodConfig, message |-> Text("hi")]}

\* A POST /push with one of the bodies reqs arrives at the running server and
\* is given to a handler task.
Receive(i, reqs) ==
    /\ mainPc = "serving"
    /\ task[i].pc = "idle"
    /\ \E req \in reqs :
        task' = [task EXCEPT ![i] = [@ EXCEPT !.pc = "received", !.req = Some(req)]]
    /\ UNCHANGED <<registry, regLog, lastGet, lastList, mainPc, now>>

Arrive(i) == Receive(i, PushRequests)

ArriveSample(i) == Receive(i, SampleRequests)

\* The handler as a mutant has it: an unknown platform is registered on the fly.
HandlePush_registering(i) ==
    /\ task[i].pc = "received"
    /\ task' = [task EXCEPT ![i] = push_start(@, registry, now)]
    /\ registry' = IF task[i].req.v.platform \in DOMAIN registry
                   THEN registry
                   ELSE insert(registry, task[i].req.v.platform,
                               BoxFactory("WxWorkPlatformFactory", Len(regLog) + 1))
    /\ UNCHANGED <<regLog, lastGet, lastList, mainPc, now>>

\* The handler is polled for the first time.
HandlePush(i) ==
    /\ task[i].pc = "received"
    /\ task' = [task EXCEPT ![i] = push_start(@, registry, now)]
    /\ UNCHANGED <<registry, regLog, lastGet, lastList, mainPc, now>>

(************************ the outbound call ********************************)
\* The webhook's response head arrives, or the transport fails.
NetSend(i) ==
    /\ task[i].pc = "await_send"
    /\ ~task[i].net.some
    /\ \E outcome \in SendOutcomes :
        task' = [task EXCEPT ![i].net = Some(outcome)]
    /\ UNCHANGED <<registry, regLog, lastGet, lastList, mainPc, now>>

\* The resumption as a mutant has it: a timeout wakes the task without an answer.
ResumeSend_timeout(i) ==
    /\ task[i].pc = "await_send"
    /\ task' = [task EXCEPT ![i] =
                 settle(@, Err(PushError("NetworkError", "operation timed out")), now)]
    /\ UNCHANGED <<registry, regLog, lastGet, lastList, mainPc, now>>

\* The task is woken from .send().await.
ResumeSend(i) ==
    /\ task[i].pc = "await_send"
    /\ task[i].net.some
    /\ LET next == send_request_sent(task[i].net.v) IN
        task' = [task EXCEPT ![i] =
                  IF next.state = "head"
                  THEN [@ EXCEPT !.status = next.status, !.net = None,
                                 !.pc = "await_text"]
                  ELSE settle(@, next.result, now)]
    /\ UNCHANGED <<registry, regLog, lastGet, lastList, mainPc, now>>

\* The webhook's response body arrives, or reading it fails.
NetText(i) ==
    /\ task[i].pc = "await_text"
    /\ ~task[i].net.some
    /\ \E outcome \in TextOutcomes :
        task' = [task EXCEPT ![i].net = Some(outcome)]
    /\ UNCHANGED <<registry, regLog, lastGet, lastList, mainPc, now>>

\* The task is woken from .text().await.
ResumeText(i) ==
    /\ task[i].pc = "await_text"
    /\ task[i].net.some
    /\ task' = [task EXCEPT ![i] =
                 settle(@, send_request_text(@.status, @.net.v, now), now)]
    /\ UNCHANGED <<registry, regLog, lastGet, lastList, mainPc, now>>

(************************ direct library calls *****************************)
\* WxWorkPlatformFactory.create(config), called by a library user.
DirectCreate(i) ==
    /\ task[i].pc = "idle"
    /\ \E config \in Configs :
        LET made == WxWorkPlatformFactory_create(config) IN
        task' = [task EXCEPT ![i] =
                  IF made.ok
                  THEN [@ EXCEPT !.call = Some([method |-> "create", config |-> config]),
                                 !.platform = Some(made.v), !.pc = "created"]
                  ELSE [@ EXCEPT !.call = Some([method |-> "create", config |-> config]),
                                 !.result = Some(made), !.pc = "returned"]]
    /\ UNCHANGED <<registry, regLog, lastGet, lastList, mainPc, now>>

\* One capability method is called on the instance.
DirectCall(i) ==
    /\ task[i].pc = "created"
    /\ \E call \in Calls :
        task' = [task EXCEPT ![i] =
                  await([@ EXCEPT !.call = Some(call)],
                        invoke(@.platform.v, call), now)]
    /\ UNCHANGED <<registry, regLog, lastGet, lastList, mainPc, now>>

(************************ specifications ***********************************)
NextRegistry == Register \/ GetFactory \/ ListPlatforms

\* The registry alone, under arbitrary register / get_factory / list_platforms calls.
SpecRegistry == Init /\ [][NextRegistry]_vars

Main == MainRegister \/ MainLog \/ MainServe

Outbound(i) == NetSend(i) \/ ResumeSend(i) \/ NetText(i) \/ ResumeText(i)

Next ==
    \/ Main
    \/ \E i \in Tasks : Arrive(i) \/ HandlePush(i) \/ Outbound(i)

\* The server: main, then concurrent /push handlers.  The clock, read only for
\* PushResult.timestamp, stands still here and runs in SpecPlatform.
Spec == Init /\ [][Next]_vars

\* The runtime polls a task that is ready to run; nothing makes a request
\* arrive or the webhook answer.
Fairness ==
    \A i \in Tasks :
        WF_vars(HandlePush(i)) /\ WF_vars(ResumeSend(i)) /\ WF_vars(ResumeText(i))

NextLive ==
    \/ Main
    \/ \E i \in Tasks : ArriveSample(i) \/ HandlePush(i) \/ Outbound(i)

\* The server under fair scheduling, with one request for each way through
\* the handler.
LiveSpec == Init /\ [][NextLive]_vars /\ Fairness

\* The one caller of the sequential specification.
Callers == {1}

NextPlatform ==
    \/ Main
    \/ Tick
    \/ \E i \in Callers :
        \/ DirectCreate(i) \/ DirectCall(i)
        \/ Arrive(i) \/ HandlePush(i)
        \/ Outbound(i)

\* One caller at a time: a library user calling the factory and the capability
\* methods, or one /push request, with the clock running.
SpecPlatform == Init /\ [][NextPlatform]_vars

(************************ properties ***************************************)
\* The factory of the most recent register call in log whose name is n.
LastRegistered(log, n) ==
    LET idx == {k \in 1..Len(log) : name(log[k]) = n} IN
    IF idx = {} THEN None
    ELSE Some(log[CHOOSE k \in idx : \A m \in idx : m <= k])

RegisteredNames(log) == {name(log[k]) : k \in 1..Len(log)}

Elements(seq) == {seq[k] : k \in 1..Len(seq)}

\* C1: after any sequence of register calls on a new registry, get_factory(n)
\* returns the factory of the most recent register call named n and none for a
\* name never registered; list_platforms returns exactly the registered names,
\* each once (nothing for a new registry); registering a name again succeeds
\* and replaces the entry.
C1_RegistryLastWins ==
    /\ \A n \in Names : get_factory(registry, n) = LastRegistered(regLog, n)
    /\ lastGet.called =>
          lastGet.result = LastRegistered(SubSeq(regLog, 1, lastGet.at), lastGet.name)
    /\ \A l \in list_platforms(registry) :
          /\ Elements(l) = RegisteredNames(regLog)
          /\ Len(l) = Cardinality(RegisteredNames(regLog))
    /\ lastList.called =>
          /\ Elements(lastList.result) = RegisteredNames(SubSeq(regLog, 1, lastList.at))
          /\ Len(lastList.result) = Cardinality(Elements(lastList.result))
    /\ regLog = <<>> => list_platforms(registry) = {<<>>}
    /\ \A type \in FactoryTypes :
          LET f == BoxFactory(type, Len(regLog) + 1) IN
          get_factory(register(registry, f), name(f)) = Some(f)

\* A name was registered twice, then looked up and listed.
C1_Witness ==
    /\ \E a, b \in 1..Len(regLog) : a < b /\ name(regLog[a]) = name(regLog[b])
            /\ lastGet.called /\ lastGet.at >= b /\ lastGet.name = name(regLog[b])
            /\ lastGet.result.some /\ lastGet.result.v.box >= b
    /\ lastList.called /\ lastList.at = Len(regLog) /\ Len(lastList.result) = 2

\* The handler tasks that have answered.
Answered == {i \in Tasks : task[i].http.some}

\* The platform name of the request is not in the registry.
UnknownPlatform(req) == req.platform \notin DOMAIN registry

\* The configuration blob has no string token.
BadConfig(config) ==
    \/ config.t # "object"
    \/ "token" \notin DOMAIN config.fields
    \/ config.fields.token.t # "string"

PushResultFields == {"message_id", "success", "response", "timestamp"}

\* C2: a /push request is answered 400 exactly when its platform is not in the
\* registry or factory.create(config) fails, and 200 in every other case, also
\* when the send fails; either way the body is {result: PushResult}.
C2_StatusCodes ==
    \A i \in Answered :
        LET t == task[i]
            rejected == \/ UnknownPlatform(t.req.v)
                        \/ ~create(registry[t.req.v.platform], t.req.v.config).ok
        IN /\ t.http.v.status = (IF rejected THEN 400 ELSE 200)
           /\ BadConfig(t.req.v.config) /\ ~UnknownPlatform(t.req.v) => t.http.v.status = 400
           /\ t.result.some /\ ~t.result.v.ok => t.http.v.status = 200
           /\ DOMAIN t.http.v.json = {"result"}
           /\ DOMAIN t.http.v.json.result = PushResultFields

\* One request was rejected with 400 and another answered 200 although its
\* send failed.
C2_Witness ==
    \E i, j \in Answered :
        /\ task[i].http.v.status = 400
        /\ task[j].http.v.status = 200
        /\ task[j].result.some /\ ~task[j].result.v.ok

SendErrorKinds == {"NetworkError", "MessageError", "PlatformError"}

\* How often step occurs in a handler's trace.
Count(trace, step) == Cardinality({k \in 1..Len(trace) : trace[k] = step})

\* C3: every error of a /push request (unknown platform, ConfigError from
\* create, NetworkError / MessageError / PlatformError from send) ends in a
\* response whose result has success = false and a response text describing
\* the error; a handler that has finished has answered, and it sends once at
\* most.
C3_ErrorsBecomeResults ==
    \A i \in Tasks :
        LET t == task[i] IN
        IsPush(t) =>
        /\ t.pc = "done" <=> t.http.some
        /\ Count(t.trace, "send") <= 1 /\ Len(t.posted) <= 1
        /\ t.http.some => LET r == t.http.v.json.result IN
            /\ UnknownPlatform(t.req.v) =>
                  /\ ~r.success /\ r.response.some
                  /\ r.response.v = "Platform '" \o t.req.v.platform \o "' not found"
            /\ ~UnknownPlatform(t.req.v) /\ BadConfig(t.req.v.config) =>
                  /\ ~r.success /\ r.response.some
                  /\ Contains(r.response.v, "Failed to create platform: ")
                  /\ Contains(r.response.v, ErrorPrefix("ConfigError"))
            /\ t.result.some /\ ~t.result.v.ok =>
                  /\ t.result.v.e.kind \in SendErrorKinds
                  /\ ~r.success /\ r.response.some
                  /\ r.response.v = ErrorPrefix(t.result.v.e.kind) \o t.result.v.e.msg
            /\ ~r.success => r.response.some /\ Len(r.response.v) > 0

\* A request whose outbound call failed in transport was answered, next to one
\* whose message type is unsupported.
C3_Witness ==
    \E i, j \in Answered :
        /\ task[i].result.some /\ ~task[i].result.v.ok
        /\ task[i].result.v.e.kind = "NetworkError"
        /\ task[j].result.some /\ ~task[j].result.v.ok
        /\ task[j].result.v.e.kind = "MessageError"

\* The direct calls of method m that have been made.
Called(i, m) == task[i].call.some /\ task[i].call.v.method = m

\* C4: WxWorkPlatformFactory.create on a blob without token, or with a token
\* that is no string, returns ConfigError; constructing an instance, whether it
\* succeeds or fails, issues no outbound request.
C4_CreateConfigError ==
    \A i \in Tasks :
        LET t == task[i] IN
        /\ Called(i, "create") =>
              /\ t.posted = <<>>
              /\ BadConfig(t.call.v.config) =>
                    /\ t.pc = "returned" /\ ~t.platform.some
                    /\ t.result.some /\ ~t.result.v.ok
                    /\ t.result.v.e.kind = "ConfigError"
              /\ ~BadConfig(t.call.v.config) => t.pc = "created" /\ t.platform.some
        /\ IsPush(t) /\ t.http.some /\ ~UnknownPlatform(t.req.v)
                /\ BadConfig(t.req.v.config) =>
              /\ t.posted = <<>> /\ ~t.platform.some
              /\ Contains(t.http.v.json.result.response.v, ErrorPrefix("ConfigError"))

\* create has returned for a blob without token.
C4_Witness ==
    \E i \in Tasks :
        /\ Called(i, "create") /\ task[i].call.v.config = NoTokenConfig
        /\ task[i].pc = "returned"

UnsupportedTypes == {"Rich", "Image", "Link"}

UnsupportedMethods == {"send_rich", "send_image", "send_link"}

\* The calls of send with a message of an unsupported type that have returned.
UnsupportedSends ==
    {i \in Tasks : /\ Called(i, "send") /\ task[i].pc = "returned"
                   /\ task[i].call.v.message.type \in UnsupportedTypes}

\* C5 as stated: send of a Rich, Image or Link message fails with
\* MessageError("Unsupported message type").
C5_AsStated ==
    \A i \in UnsupportedSends :
        task[i].result.v = Err(PushError("MessageError", "Unsupported message type"))

\* C5, amended: send posts the text payload of send_text for Text and the
\* markdown payload of send_markdown for Markdown; for Rich, Image and Link it
\* fails with MessageError("Unsupported message type for WxWork Bot");
\* send_rich, send_image and send_link fail with PlatformError; none of the
\* unsupported calls issues an outbound request.
C5_UnsupportedTypes ==
    \A i \in Tasks :
        LET t == task[i] IN
        /\ i \in UnsupportedSends =>
              /\ t.result.v = Err(PushError("MessageError",
                                    "Unsupported message type for WxWork Bot"))
              /\ t.posted = <<>>
        /\ (\E m \in UnsupportedMethods : Called(i, m)) =>
              /\ t.pc = "returned" /\ ~t.result.v.ok
              /\ t.result.v.e.kind = "PlatformError"
              /\ t.posted = <<>>
        /\ Called(i, "send") /\ t.call.v.message.type = "Text" =>
              /\ Len(t.posted) = 1
              /\ Pending(t.posted[1]) = send_text(t.platform.v, t.call.v.message.content)
              /\ t.posted[1].json.msgtype = "text"
        /\ Called(i, "send") /\ t.call.v.message.type = "Markdown" =>
              /\ Len(t.posted) = 1
              /\ Pending(t.posted[1]) = send_markdown(t.platform.v, t.call.v.message.content)
              /\ t.posted[1].json.msgtype = "markdown"
        /\ IsPush(t) /\ t.platform.some /\ t.req.v.message.type \in UnsupportedTypes =>
              /\ t.posted = <<>> /\ ~t.result.v.ok
              /\ t.result.v.e.kind = "MessageError"

\* send was called with a Rich message and has returned.
C5_Witness ==
    \E i \in UnsupportedSends : task[i].call.v.message.type = "Rich"

\* The callers whose outbound call has been made and whose call has returned.
Completed ==
    {i \in Tasks : task[i].pc \in {"returned", "done"} /\ Len(task[i].posted) = 1}

IsEnvelope(text) == \E e \in Envelopes : EnvelopeJson(e) = text

EnvelopeOf(text) == CHOOSE e \in Envelopes : EnvelopeJson(e) = text

\* C6: the outcome of send_request: a transport failure gives NetworkError; a
\* non-success status gives NetworkError with the status and the body in its
\* text; a success status with an envelope of errcode 0 gives
\* PushResult{success: true, response: the raw body}; a success status with
\* another errcode gives PlatformError with the code and the message in its
\* text, which a /push request answers with 200, success = false and a
\* response text containing the code.
C6_SendRequestOutcome ==
    \A i \in Completed :
        LET t == task[i]
            r == t.result.v
        IN
        /\ ~t.net.v.ok => ~r.ok /\ r.e.kind = "NetworkError" /\ r.e.msg = t.net.v.e
        /\ t.net.v.ok /\ t.status \notin 200..299 =>
              /\ ~r.ok /\ r.e.kind = "NetworkError"
              /\ Contains(r.e.msg, ToString(t.status)) /\ Contains(r.e.msg, t.net.v.v)
        /\ t.net.v.ok /\ t.status \in 200..299 /\ IsEnvelope(t.net.v.v) =>
              LET e == EnvelopeOf(t.net.v.v) IN
              /\ e.errcode = 0 =>
                    r.ok /\ r.v.success /\ r.v.response = Some(t.net.v.v)
              /\ e.errcode # 0 =>
                    /\ ~r.ok /\ r.e.kind = "PlatformError"
                    /\ Contains(r.e.msg, ToString(e.errcode))
                    /\ Contains(r.e.msg, e.errmsg)
                    /\ IsPush(t) =>
                          /\ t.http.v.status = 200
                          /\ ~t.http.v.json.result.success
                          /\ Contains(t.http.v.json.result.response.v, ToString(e.errcode))

\* A /push request whose webhook answered 200 with errcode 93000 was answered.
C6_Witness ==
    \E i \in Completed :
        /\ IsPush(task[i]) /\ task[i].status = 200 /\ task[i].net.v.ok
        /\ task[i].net.v.v = EnvelopeJson([errcode |-> 93000, errmsg |-> "invalid token"])
        /\ Contains(task[i].http.v.json.result.response.v, "93000")

SendingMethods == {"send_text", "send_text_with_mention", "send_markdown"}

SupportedTypes == {"Text", "Markdown"}

\* The direct calls of a method that sends.
SupportedCall(i) ==
    \/ \E m \in SendingMethods : Called(i, m)
    \/ Called(i, "send") /\ task[i].call.v.message.type \in SupportedTypes

\* C7: a send call for a supported message issues exactly one POST, whatever
\* comes of it; a /push request issues one POST at most, and none when its
\* platform is unknown or create fails.
C7_OnePostPerSend ==
    \A i \in Tasks :
        LET t == task[i] IN
        /\ SupportedCall(i) =>
              /\ Len(t.posted) = 1 /\ t.posted[1].method = "POST"
              /\ t.posted[1].url = webhook_url(t.platform.v.config)
        /\ IsPush(t) =>
              /\ Len(t.posted) <= 1
              /\ t.http.some /\ t.http.v.status = 400 => t.posted = <<>>
              /\ t.pc # "received" /\ (UnknownPlatform(t.req.v) \/ BadConfig(t.req.v.config))
                    => t.posted = <<>>
              /\ t.platform.some /\ t.req.v.message.type \in SupportedTypes
                    => Len(t.posted) = 1

\* send_text_with_mention has returned after a transport failure.
C7_Witness ==
    \E i \in Tasks :
        /\ Called(i, "send_text_with_mention") /\ task[i].pc = "returned"
        /\ ~task[i].result.v.ok /\ task[i].result.v.e.kind = "NetworkError"
        /\ Len(task[i].posted) = 1

\* The registry as main leaves it.
StartupRegistry == register(new_registry, BoxFactory("WxWorkPlatformFactory", 1))

\* C8: the registry is populated before the first request is handled and no
\* handler changes it: while requests are served its content is the startup
\* content, and get_factory answers the same for the same name in every
\* request, however the requests interleave.
C8_RegistryFrozen ==
    /\ \A i \in Tasks : task[i].pc # "idle" => mainPc = "serving"
    /\ mainPc = "serving" =>
          /\ registry = StartupRegistry
          /\ DOMAIN registry = {PLATFORM_NAME}
    /\ \A i \in Tasks : task[i].looked.some =>
          task[i].looked.v = get_factory(StartupRegistry, task[i].req.v.platform)
    /\ \A i, j \in Tasks :
          /\ task[i].looked.some /\ task[j].looked.some
          /\ task[i].req.v.platform = task[j].req.v.platform
          => task[i].looked = task[j].looked

\* Two requests for the same platform have both looked it up, one of them
\* while the other was waiting for the webhook.
C8_Witness ==
    \E i, j \in Tasks :
        /\ i # j
        /\ task[i].looked.some /\ task[j].looked.some
        /\ task[i].req.v.platform = task[j].req.v.platform
        /\ task[i].pc = "await_text" /\ task[j].pc = "done"

\* C9: PushResult::default has success = false, no message_id and no response;
\* the failure results of the dispatch handler and the success results of
\* send_request take their unset fields from it, so no returned result carries
\* a message_id.
C9_DefaultResult ==
    /\ LET d == default_PushResult(now) IN
          ~d.success /\ d.message_id = None /\ d.response = None /\ d.timestamp = now
    /\ \A i \in Tasks :
          LET t == task[i] IN
          /\ t.http.some =>
                LET r == t.http.v.json.result IN
                /\ r.message_id = None
                /\ r.timestamp \in 0..now
                /\ ~r.success => r.response.some
          /\ t.result.some /\ t.result.v.ok =>
                LET r == t.result.v.v IN
                /\ r.message_id = None
                /\ r.success /\ r.response.some
                /\ r.timestamp \in 0..now

\* After the clock has advanced, a request was answered with a success result
\* built by send_request.
C9_Witness ==
    \E i \in Tasks :
        /\ task[i].http.some /\ task[i].http.v.json.result.success
        /\ task[i].http.v.json.result.timestamp > 0

\* The steps of the handler, in their order.
HandlerOrder == <<"lookup", "create", "send", "respond">>

\* A trace follows the order: some first steps, then possibly the response.
InOrder(trace) ==
    \E k \in 0..3 :
        \/ trace = SubSeq(HandlerOrder, 1, k)
        \/ k >= 1 /\ trace = Append(SubSeq(HandlerOrder, 1, k), "respond")

Waiting(i) == task[i].pc \in {"await_send", "await_text"}

\* The outbound call has completed, or has failed in transport.
CallSettled(i) ==
    \/ task[i].pc = "await_send" /\ task[i].net.some /\ ~task[i].net.v.ok
    \/ task[i].pc = "await_text" /\ task[i].net.some

\* C10: a /push request runs lookup, create, send, respond in this order and
\* waits only for the outbound call; once that call has completed or failed in
\* transport the request is answered, exactly once; a request that fails at
\* lookup or create is answered by the step that starts it; the answer of a
\* waiting request is produced only by the outcome of its call, so a request
\* whose call never returns is never answered.
C10_HandlerProgress ==
    /\ [](\A i \in Tasks :
            /\ InOrder(task[i].trace)
            /\ Waiting(i) => /\ Len(task[i].posted) = 1
                             /\ ~task[i].http.some
                             /\ task[i].trace = SubSeq(HandlerOrder, 1, 3))
    /\ [][\A i \in Tasks :
            /\ ~task[i].http.some /\ task'[i].http.some =>
                  task[i].pc = "received" \/ task[i].net.some
            /\ task[i].pc = "done" => task'[i] = task[i]
            /\ task[i].pc = "received" /\ task'[i] # task[i]
                    /\ (UnknownPlatform(task[i].req.v) \/ BadConfig(task[i].req.v.config))
                  => task'[i].pc = "done" /\ task'[i].http.v.status = 400]_vars
    /\ \A i \in Tasks : CallSettled(i) ~> (task[i].pc = "done" /\ task[i].http.some)
    /\ \A i \in Tasks : (task[i].pc = "received") ~> (task[i].pc = "done" \/ Waiting(i))

\* One request was answered after its outbound call while another is still
\* waiting for the webhook.
C10_Witness ==
    \E i, j \in Tasks :
        /\ task[i].pc = "done" /\ Len(task[i].posted) = 1
        /\ Count(task[i].trace, "respond") = 1
        /\ task[j].pc = "await_send" /\ ~task[j].net.some

====
